---- MODULE Spec2Model ----
(***************************************************************************)
(* Model of validate.py: the semantic checks run on an ORTOFON .eaf        *)
(* transcript (vocab_meta, vocab_META, tier_attribs, hierarchy), their     *)
(* aggregation in verify, and the driver loop over sys.argv[1:].           *)
(*                                                                         *)
(* Representation.                                                         *)
(*  - A string that the code only compares as a whole (an annotation       *)
(*    text, a LINGUISTIC_TYPE_REF) is a TLA+ string.  Characters outside   *)
(*    ASCII are written as XML numeric character references                *)
(*    ("ka&#353;el"), which is an injective renaming of the labels.        *)
(*  - A string that the code takes apart (TIER_ID, PARENT_REF: split and   *)
(*    re.sub) is a sequence of one-character strings.                      *)
(*  - An optional value (an attribute that may be missing, an element text *)
(*    that may be None) is <<>> when absent and <<v>> when present.        *)
(*  - A formatted message is the sequence of the pieces str.format puts    *)
(*    together, in order.                                                  *)
(*  - A document is the sequence of its TIER elements in document order,   *)
(*    each with the sequence of its annotations; every annotation is an    *)
(*    ALIGNABLE_ANNOTATION or a REF_ANNOTATION holding one                 *)
(*    ANNOTATION_VALUE.                                                    *)
(***************************************************************************)
EXTENDS Integers, Sequences, FiniteSets, TLC

VARIABLES argv, idx, pc, tree, errors, ERRORS, stderr, ran, outcome

vars == <<argv, idx, pc, tree, errors, ERRORS, stderr, ran, outcome>>

(* Bounds of the model. *)
MaxFiles == 3
MaxTiers == 2
MaxAnnots == 2

-----------------------------------------------------------------------------
(* Optional values and strings. *)

None == <<>>

Some(v) == <<v>>

IsNone(o) == Len(o) = 0

(* element.get(name, "") and the like: the value, or the default. *)
get(o, default) == IF IsNone(o) THEN default ELSE o[1]

(* "{}".format(x) of an element text: None prints as the word None. *)
format_text(o) == IF IsNone(o) THEN "None" ELSE o[1]

(* The string a sequence of characters spells. *)
RECURSIVE Str(_)
Str(cs) == IF cs = <<>> THEN "" ELSE Head(cs) \o Str(Tail(cs))

Digits == {"0", "1", "2", "3", "4", "5", "6", "7", "8", "9"}

(* s.split(" ")[0]: the characters before the first space, all of s when   *)
(* it holds no space.                                                      *)
RECURSIVE split_first(_)
split_first(s) ==
    IF s = <<>> \/ Head(s) = " "
    THEN <<>>
    ELSE <<Head(s)>> \o split_first(Tail(s))

(* A bug re_sub_prefix could have: every leading run of digits and spaces  *)
(* is dropped, not one digit and one space.                                *)
RECURSIVE re_sub_prefix_greedy(_)
re_sub_prefix_greedy(tid) ==
    IF tid # <<>> /\ (Head(tid) \in Digits \/ Head(tid) = " ")
    THEN re_sub_prefix_greedy(Tail(tid))
    ELSE tid

(* re.sub(r"^[0-9] ", "", tid): one digit followed by one space is removed *)
(* from the start of tid, when tid starts so.                              *)
re_sub_prefix(tid) ==
    IF Len(tid) >= 2 /\ tid[1] \in Digits /\ tid[2] = " "
    THEN SubSeq(tid, 3, Len(tid))
    ELSE tid

-----------------------------------------------------------------------------
(* The fixed tables of the program. *)

fonetic == "fonetick&#253;"

ortografic == "ortografick&#253;"

(* A bug meta_vocab could have: a table cut short, "klep&#225;n&#237;"      *)
(* among the labels left out.                                              *)
meta_vocab_short ==
    {"citoslovce", "dlouh&#225; pauza", "ka&#353;el", "sm&#237;ch"}

meta_vocab == {
    "citoslovce",
    "citoslovce odporu",
    "citoslovce opovr&#382;en&#237;",
    "citoslovce &#250;divu",
    "citoslovce &#250;leku",
    "dlouh&#225; pauza",
    "hv&#237;zd&#225;n&#237;",
    "ka&#353;el",
    "klep&#225;n&#237;",
    "k&#253;ch&#225;n&#237;",
    "lusknut&#237; prsty",
    "l&#237;b&#225;n&#237;",
    "mlasknut&#237;",
    "mluv&#237; ke zv&#237;&#345;eti",
    "nadechnut&#237;",
    "odka&#353;l&#225;n&#237;",
    "pl&#225;cnut&#237;",
    "pl&#225;&#269;",
    "polknut&#237;",
    "pousm&#225;n&#237;",
    "povzdech",
    "p&#237;sk&#225;n&#237;",
    "&#345;&#237;hnut&#237;",
    "smrk&#225;n&#237;",
    "sm&#237;ch",
    "srk&#225;n&#237;",
    "&#353;kyt&#225;n&#237;",
    "tlesk&#225;n&#237;",
    "vydechnut&#237;",
    "zakokt&#225;n&#237;",
    "z&#237;v&#225;n&#237;" }

META_vocab == {
    "cink&#225;n&#237; n&#225;dob&#237;",
    "dlouh&#225; pauza",
    "dom&#225;c&#237; spot&#345;ebi&#269;",
    "hlasit&#253; hovor v pozad&#237;",
    "hluk v pozad&#237;",
    "hra na hudebn&#237; n&#225;stroj",
    "jin&#233; zv&#237;&#345;e",
    "klep&#225;n&#237;",
    "kroky",
    "m&#328;ouk&#225;n&#237; ko&#269;ky",
    "nesrozumiteln&#253; hovor v&#237;ce mluv&#269;&#237;ch najednou",
    "n&#225;bytek",
    "pl&#225;&#269; d&#237;t&#283;te",
    "po&#269;&#237;ta&#269; a p&#345;&#237;slu&#353;enstv&#237;",
    "ruch z ulice",
    "ru&#353;iv&#253; zvuk",
    "sm&#237;ch v&#237;ce mluv&#269;&#237;ch najednou",
    "&#353;t&#283;k&#225;n&#237; psa",
    "zvon&#283;n&#237; telefonu",
    "zvuk z r&#225;dia",
    "zvuk z televize",
    "zvuky p&#345;i j&#237;dle" }

(* The allow-list of valid_combination: (LINGUISTIC_TYPE_REF, TIER_ID). *)
valid == {
    <<ortografic, <<"o", "r", "t">>>>,
    <<ortografic, <<"J", "O">>>>,
    <<fonetic, <<"f", "o", "n">>>>,
    <<"meta", <<"m", "e", "t", "a">>>>,
    <<"anom", <<"a", "n", "o", "m">>>>,
    <<"META", <<"M", "E", "T", "A">>>> }

valid_combination(ltref, tid) == <<ltref, re_sub_prefix(tid)>> \in valid

-----------------------------------------------------------------------------
(* The parsed document as lxml shows it. *)

Tiers(t) == t.tiers

Annots(t, i) == t.tiers[i].annots

(* sourceline of elements: the file is laid out one element per line, the  *)
(* TIER start tag first and then one line per ANNOTATION_VALUE of the tier.*)
RECURSIVE TierLine(_, _)
TierLine(t, i) ==
    IF i = 1 THEN 1 ELSE TierLine(t, i - 1) + 1 + Len(Annots(t, i - 1))

ValueLine(t, i, j) == TierLine(t, i) + j

(* An entry of an error_log.  str is the string the code appends, as the   *)
(* pieces of its format; check, rule and pos only record which append      *)
(* statement produced it and for which element (tier index, annotation     *)
(* index; 0 where there is none), and nothing in the program reads them.   *)
Located(url, line, msg) ==
    <<url, ":", ToString(line), ":", "0", ":", "VerificationError: ">> \o msg

Violation(str, check, rule, i, j) ==
    [str |-> str, check |-> check, rule |-> rule, pos |-> <<i, j>>]

-----------------------------------------------------------------------------
(* XPath predicates on a TIER element. *)

(* @LINGUISTIC_TYPE_REF = 'category': the attribute is there and equal. *)
has_ltref(tier, category) ==
    /\ ~IsNone(tier.LINGUISTIC_TYPE_REF)
    /\ tier.LINGUISTIC_TYPE_REF[1] = category

(* @PARENT_REF: the attribute is there, whatever its value. *)
has_parent_ref(tier) == ~IsNone(tier.PARENT_REF)

-----------------------------------------------------------------------------
(* vocab_meta and vocab_META. *)

(* A bug not_in_vocab could have: an element without text is passed over. *)
not_in_vocab_skip_none(text, vocab) == ~IsNone(text) /\ text[1] \notin vocab

(* text not in vocab, where text is None for an element without text. *)
not_in_vocab(text, vocab) == IsNone(text) \/ text[1] \notin vocab

(* The loop body of a vocabulary check for the ANNOTATION_VALUEs j, j+1,   *)
(* ... of tier i, in document order.                                       *)
RECURSIVE vocab_values(_, _, _, _, _)
vocab_values(t, i, j, vocab, category) ==
    IF j > Len(Annots(t, i))
    THEN <<>>
    ELSE (IF not_in_vocab(Annots(t, i)[j].text, vocab)
          THEN <<Violation(
                   Located(t.url, ValueLine(t, i, j),
                           <<"'", format_text(Annots(t, i)[j].text),
                             "' is not allowed in a ", category, " tier.">>),
                   "vocab_" \o category, "vocab", i, j)>>
          ELSE <<>>)
         \o vocab_values(t, i, j + 1, vocab, category)

(* //TIER[@LINGUISTIC_TYPE_REF = category]//ANNOTATION_VALUE, from tier i  *)
(* on, each checked against vocab.                                         *)
RECURSIVE vocab_tiers(_, _, _, _)
vocab_tiers(t, i, vocab, category) ==
    IF i > Len(Tiers(t))
    THEN <<>>
    ELSE (IF has_ltref(Tiers(t)[i], category)
          THEN vocab_values(t, i, 1, vocab, category)
          ELSE <<>>)
         \o vocab_tiers(t, i + 1, vocab, category)

(* The error_log of the VerificationError a check raises; <<>> when the    *)
(* check returns without raising.                                          *)
vocab_meta(t) == vocab_tiers(t, 1, meta_vocab, "meta")

vocab_META(t) == vocab_tiers(t, 1, META_vocab, "META")

-----------------------------------------------------------------------------
(* tier_attribs. *)

(* First loop: fonetic tiers without @PARENT_REF. *)
RECURSIVE parent_required(_, _)
parent_required(t, i) ==
    IF i > Len(Tiers(t))
    THEN <<>>
    ELSE (IF has_ltref(Tiers(t)[i], fonetic) /\ ~has_parent_ref(Tiers(t)[i])
          THEN <<Violation(
                   Located(t.url, TierLine(t, i),
                           <<"TIERs with @LINGUISTIC_TYPE_REF = '", fonetic,
                             "' should have a @PARENT_REF attribute.">>),
                   "tier_attribs", "parent_required", i, 0)>>
          ELSE <<>>)
         \o parent_required(t, i + 1)

(* Second loop: every fonetic tier, the prefixes of TIER_ID and PARENT_REF *)
(* compared, a missing attribute read as "".                               *)
RECURSIVE prefix_agreement(_, _)
prefix_agreement(t, i) ==
    IF i > Len(Tiers(t))
    THEN <<>>
    ELSE (IF /\ has_ltref(Tiers(t)[i], fonetic)
             /\ split_first(get(Tiers(t)[i].TIER_ID, <<>>))
                  # split_first(get(Tiers(t)[i].PARENT_REF, <<>>))
          THEN <<Violation(
                   Located(t.url, TierLine(t, i),
                           <<"The numeric prefixes of @TIER_ID and @PARENT_REF",
                             " on a TIER with @LINGUISTIC_TYPE_REF = '", fonetic,
                             "' should match.">>),
                   "tier_attribs", "prefix_agreement", i, 0)>>
          ELSE <<>>)
         \o prefix_agreement(t, i + 1)

(* Third loop: every tier, its (LINGUISTIC_TYPE_REF, TIER_ID) pair. *)
RECURSIVE combination(_, _)
combination(t, i) ==
    IF i > Len(Tiers(t))
    THEN <<>>
    ELSE (IF ~valid_combination(get(Tiers(t)[i].LINGUISTIC_TYPE_REF, ""),
                                get(Tiers(t)[i].TIER_ID, <<>>))
          THEN <<Violation(
                   Located(t.url, TierLine(t, i),
                           <<"'", get(Tiers(t)[i].LINGUISTIC_TYPE_REF, ""),
                             "' and '", Str(get(Tiers(t)[i].TIER_ID, <<>>)),
                             "' is not a permitted combination of the",
                             " @LINGUISTIC_TYPE_REF and @TIER_ID attributes.">>),
                   "tier_attribs", "combination", i, 0)>>
          ELSE <<>>)
         \o combination(t, i + 1)

tier_attribs(t) ==
    parent_required(t, 1) \o prefix_agreement(t, 1) \o combination(t, 1)

-----------------------------------------------------------------------------
(* hierarchy. *)

(* //TIER[@PARENT_REF]//ALIGNABLE_ANNOTATION, as (tier, annotation) pairs. *)
alignable_under_parent_ref(t) ==
    {p \in UNION {{<<i, j>> : j \in 1..Len(Annots(t, i))} :
                  i \in 1..Len(Tiers(t))} :
        /\ has_parent_ref(Tiers(t)[p[1]])
        /\ Annots(t, p[1])[p[2]].tag = "ALIGNABLE_ANNOTATION"}

hierarchy_message ==
    <<"ALIGNABLE_ANNOTATIONs are not allowed on a TIER with a @PARENT_REF attribute.">>

(* A bug hierarchy could have: one message for each tier that holds a      *)
(* match, not one for the document.                                        *)
RECURSIVE hierarchy_each_from(_, _)
hierarchy_each_from(t, i) ==
    IF i > Len(Tiers(t))
    THEN <<>>
    ELSE (IF \E p \in alignable_under_parent_ref(t) : p[1] = i
          THEN <<Violation(hierarchy_message, "hierarchy", "hierarchy", i, 0)>>
          ELSE <<>>)
         \o hierarchy_each_from(t, i + 1)

hierarchy_each(t) == hierarchy_each_from(t, 1)

hierarchy(t) ==
    IF alignable_under_parent_ref(t) # {}
    THEN <<Violation(hierarchy_message, "hierarchy", "hierarchy", 0, 0)>>
    ELSE <<>>

-----------------------------------------------------------------------------
(* verify. *)

checks == <<"vocab_meta", "vocab_META", "tier_attribs", "hierarchy">>

run_check(name, t) ==
    CASE name = "vocab_meta" -> vocab_meta(t)
      [] name = "vocab_META" -> vocab_META(t)
      [] name = "tier_attribs" -> tier_attribs(t)
      [] name = "hierarchy" -> hierarchy(t)

(* A bug accumulate could have: the first failing check ends the           *)
(* collection, as a verify without the try around each check would.        *)
accumulate_first_only(errs, log) == IF errs # <<>> THEN errs ELSE errs \o log

(* A bug accumulate could have: the new log goes in front. *)
accumulate_in_front(errs, log) == log \o errs

(* errors += e.error_log *)
accumulate(errs, log) == errs \o log

-----------------------------------------------------------------------------
(* The driver loop. *)

(* The outcome of etree.parse(f) and schema.assertValid(tree) for a file   *)
(* is its status: "malformed" raises XMLSyntaxError, "invalid" raises      *)
(* DocumentInvalid, "valid" raises nothing.                                *)

(* A bug skips_verify could have: the handler of DocumentInvalid ends with *)
(* continue as well.                                                       *)
skips_verify_unless_valid(status) == status # "valid"

(* Whether the except clause taken ends the iteration with continue. *)
skips_verify(status) == status = "malformed"

(* A bug raise_flag could have: the flag is assigned the outcome of the    *)
(* document at hand.                                                       *)
raise_flag_assign(flag, failed) == failed

(* ERRORS = True in a handler; ERRORS is left alone otherwise. *)
raise_flag(flag, failed) == IF failed THEN TRUE ELSE flag

FileName(i) == "f" \o ToString(i) \o ".eaf"

NoTree == [url |-> "", tiers |-> <<>>]

NotRun == [verify |-> "not_run", log |-> <<>>]

(* for f in sys.argv[1:], the try block of lines 194-207 when it ends with *)
(* continue: the file is reported and the next iteration begins.           *)
ParseAndContinue ==
    /\ pc = "loop"
    /\ idx <= Len(argv)
    /\ skips_verify(argv[idx].status)
    /\ ERRORS' = raise_flag(ERRORS, argv[idx].status # "valid")
    /\ stderr' = Append(stderr, [kind |-> argv[idx].status, f |-> FileName(idx),
                                 log |-> <<>>])
    /\ idx' = idx + 1
    /\ UNCHANGED <<argv, pc, tree, errors, ran, outcome>>

(* The try block of lines 194-207 when control reaches line 209: a schema  *)
(* failure is reported, and verify(tree) is entered with errors = [].      *)
ParseAndVerify ==
    /\ pc = "loop"
    /\ idx <= Len(argv)
    /\ ~skips_verify(argv[idx].status)
    /\ ERRORS' = raise_flag(ERRORS, argv[idx].status # "valid")
    /\ stderr' = IF argv[idx].status # "valid"
                 THEN Append(stderr, [kind |-> argv[idx].status,
                                      f |-> FileName(idx), log |-> <<>>])
                 ELSE stderr
    /\ tree' = [url |-> FileName(idx), tiers |-> argv[idx].tiers]
    /\ errors' = <<>>
    /\ pc' = "check"
    /\ UNCHANGED <<argv, idx, ran, outcome>>

(* One iteration of the for loop of verify: the next check runs, and the   *)
(* error_log of the VerificationError it raises is added to errors.        *)
Check(name) ==
    /\ pc = "check"
    /\ Len(ran[idx]) < Len(checks)
    /\ name = checks[Len(ran[idx]) + 1]
    /\ errors' = accumulate(errors, run_check(name, tree))
    /\ ran' = [ran EXCEPT ![idx] = Append(@, name)]
    /\ UNCHANGED <<argv, idx, pc, tree, ERRORS, stderr, outcome>>

Check_vocab_meta == Check("vocab_meta")

Check_vocab_META == Check("vocab_META")

Check_tier_attribs == Check("tier_attribs")

Check_hierarchy == Check("hierarchy")

(* The end of verify and the handler around its call: verify raises        *)
(* VerificationError(errors) when errors is not empty and the driver       *)
(* reports it; the iteration ends.                                         *)
VerifyEnd ==
    /\ pc = "check"
    /\ Len(ran[idx]) = Len(checks)
    /\ outcome' = [outcome EXCEPT ![idx] =
                     [verify |-> IF errors # <<>> THEN "raised" ELSE "returned",
                      log |-> errors]]
    /\ ERRORS' = raise_flag(ERRORS, errors # <<>>)
    /\ stderr' = IF errors # <<>>
                 THEN Append(stderr, [kind |-> "verification",
                                      f |-> FileName(idx), log |-> errors])
                 ELSE stderr
    /\ idx' = idx + 1
    /\ pc' = "loop"
    /\ UNCHANGED <<argv, tree, errors, ran>>

(* After the loop: one of the two banners. *)
Banner ==
    /\ pc = "loop"
    /\ idx > Len(argv)
    /\ stderr' = Append(stderr, [kind |-> IF ERRORS THEN "banner_errors"
                                                    ELSE "banner_no_errors",
                                 f |-> "", log |-> <<>>])
    /\ pc' = "done"
    /\ UNCHANGED <<argv, idx, tree, errors, ERRORS, ran, outcome>>

-----------------------------------------------------------------------------
(* The inputs. *)

SeqsUpTo(S, n) == UNION {[1..k -> S] : k \in 0..n}

TierIds == {
    None,
    Some(<<>>),
    Some(<<"f", "o", "n">>),
    Some(<<"o", "r", "t">>),
    Some(<<"J", "O">>),
    Some(<<"m", "e", "t", "a">>),
    Some(<<"a", "n", "o", "m">>),
    Some(<<"M", "E", "T", "A">>),
    Some(<<"1", " ", "f", "o", "n">>),
    Some(<<"2", " ", "f", "o", "n">>),
    Some(<<"1", " ", "o", "r", "t">>),
    Some(<<"9", " ", "J", "O">>),
    Some(<<"1", "0", " ", "f", "o", "n">>),
    Some(<<"1", " ", "1", " ", "f", "o", "n">>),
    Some(<<" ", "f", "o", "n">>),
    Some(<<"1", "f", "o", "n">>),
    Some(<<"a", " ", "f", "o", "n">>),
    Some(<<"f", "o", "n", " ", "1">>),
    Some(<<"1", " ">>),
    Some(<<"x", "y", "z">>) }

LtRefs == {None, Some(ortografic), Some(fonetic), Some("meta"), Some("anom"),
           Some("META"), Some("fon")}

ParentRefs == {
    None,
    Some(<<>>),
    Some(<<"1", " ", "o", "r", "t">>),
    Some(<<"2", " ", "o", "r", "t">>),
    Some(<<"1">>),
    Some(<<"o", "r", "t">>) }

Tags == {"ALIGNABLE_ANNOTATION", "REF_ANNOTATION"}

(* In the meta vocabulary only, in the META one only, in both, in neither, *)
(* and no text at all.                                                     *)
Texts == {Some("ka&#353;el"), Some("kroky"), Some("klep&#225;n&#237;"),
          Some("&#353;kytavka"), None}

Tier(tid, ltref, parent, annots) ==
    [TIER_ID |-> tid, LINGUISTIC_TYPE_REF |-> ltref, PARENT_REF |-> parent,
     annots |-> annots]

Annot(tag, text) == [tag |-> tag, text |-> text]

(* One tier, every combination of attribute values. *)
AttributeDocs ==
    {<<Tier(tid, ltref, parent, <<>>)>> :
        tid \in TierIds, ltref \in LtRefs, parent \in ParentRefs}

(* One tier, every sequence of annotations. *)
AnnotationDocs ==
    {<<Tier(Some(<<"m", "e", "t", "a">>), ltref, parent, annots)>> :
        ltref \in {None, Some("meta"), Some("META"), Some(ortografic)},
        parent \in {None, Some(<<"1", " ", "o", "r", "t">>)},
        annots \in SeqsUpTo({Annot(tag, text) : tag \in Tags, text \in Texts},
                            MaxAnnots)}

(* Several tiers. *)
SmallTiers ==
    {Tier(tid, ltref, parent, annots) :
        tid \in {Some(<<"1", " ", "f", "o", "n">>),
                 Some(<<"1", " ", "m", "e", "t", "a">>)},
        ltref \in {Some(fonetic), Some("meta")},
        parent \in {None, Some(<<"2", " ", "o", "r", "t">>)},
        annots \in {<<>>, <<Annot("ALIGNABLE_ANNOTATION", Some("&#353;kytavka"))>>}}

TierDocs == SeqsUpTo(SmallTiers, MaxTiers)

CleanDoc == <<Tier(Some(<<"1", " ", "m", "e", "t", "a">>), Some("meta"), None,
                   <<Annot("ALIGNABLE_ANNOTATION", Some("ka&#353;el"))>>)>>

DirtyDoc == <<Tier(Some(<<"1", " ", "m", "e", "t", "a">>), Some("meta"), None,
                   <<Annot("ALIGNABLE_ANNOTATION", Some("&#353;kytavka"))>>)>>

File(status, tiers) == [status |-> status, tiers |-> tiers]

(* The argument lists: one file that parses, with a document of one of the *)
(* three families, or up to MaxFiles files of every status.                *)
Batches ==
    SeqsUpTo({File("malformed", <<>>)}
               \cup {File(st, d) : st \in {"invalid", "valid"},
                                   d \in {CleanDoc, DirtyDoc}},
             MaxFiles)

Argvs ==
    {<<File(st, d)>> : st \in {"invalid", "valid"},
                       d \in AttributeDocs \cup AnnotationDocs \cup TierDocs}
      \cup Batches

Init ==
    /\ argv \in Argvs
    /\ idx = 1
    /\ pc = "loop"
    /\ tree = NoTree
    /\ errors = <<>>
    /\ ERRORS = FALSE
    /\ stderr = <<>>
    /\ ran = [i \in 1..Len(argv) |-> <<>>]
    /\ outcome = [i \in 1..Len(argv) |-> NotRun]

Next ==
    \/ ParseAndContinue
    \/ ParseAndVerify
    \/ Check_vocab_meta
    \/ Check_vocab_META
    \/ Check_tier_attribs
    \/ Check_hierarchy
    \/ VerifyEnd
    \/ Banner

Spec == Init /\ [][Next]_vars

-----------------------------------------------------------------------------
(* Vocabulary of the properties. *)

(* The document of file i as the checks see it. *)
Doc(i) == [url |-> FileName(i), tiers |-> argv[i].tiers]

TierOf(i, k) == argv[i].tiers[k]

(* verify(tree) has finished for file i. *)
Verified(i) == outcome[i].verify # "not_run"

Files == 1..Len(argv)

(* How many entries of a log a check's rule produced for an element. *)
Occurrences(log, check, rule, pos) ==
    Cardinality({n \in 1..Len(log) :
                   /\ log[n].check = check
                   /\ log[n].rule = rule
                   /\ log[n].pos = pos})

OfCheck(log, check) == {n \in 1..Len(log) : log[n].check = check}

OfRule(log, rule) == {n \in 1..Len(log) : log[n].rule = rule}

CheckIndex(name) == CHOOSE n \in 1..Len(checks) : checks[n] = name

RuleIndex(rule) ==
    CASE rule = "parent_required" -> 1
      [] rule = "prefix_agreement" -> 2
      [] rule = "combination" -> 3
      [] OTHER -> 1

(* Element p comes before element q in the document. *)
DocBefore(p, q) == p[1] < q[1] \/ (p[1] = q[1] /\ p[2] < q[2])

(* The string has the form <url>:<line>:0:VerificationError: <message>. *)
IsLocated(str, url, line) ==
    /\ Len(str) > 7
    /\ str[1] = url
    /\ str[2] = ":"
    /\ str[3] = ToString(line)
    /\ str[4] = ":"
    /\ str[5] = "0"
    /\ str[6] = ":"
    /\ str[7] = "VerificationError: "

LineOf(i, pos) ==
    IF pos[2] = 0 THEN TierLine(Doc(i), pos[1])
                  ELSE ValueLine(Doc(i), pos[1], pos[2])

-----------------------------------------------------------------------------
(* C1: verify runs the four checks in order whether or not an earlier one  *)
(* failed; the log of the failure it raises is the logs of the four checks *)
(* one after the other; and it returns normally exactly when all four logs *)
(* are empty.                                                              *)
C1_VerifyAggregates ==
    \A i \in Files :
        Verified(i) =>
            /\ ran[i] = checks
            /\ outcome[i].log = vocab_meta(Doc(i)) \o vocab_META(Doc(i))
                                  \o tier_attribs(Doc(i)) \o hierarchy(Doc(i))
            /\ (outcome[i].verify = "returned")
                 <=> /\ vocab_meta(Doc(i)) = <<>>
                     /\ vocab_META(Doc(i)) = <<>>
                     /\ tier_attribs(Doc(i)) = <<>>
                     /\ hierarchy(Doc(i)) = <<>>

(* A document with a vocabulary violation and a hierarchy violation has    *)
(* been verified, and both are in the log.                                 *)
C1_Witness ==
    \E i \in Files :
        /\ outcome[i].verify = "raised"
        /\ OfCheck(outcome[i].log, "vocab_meta") # {}
        /\ OfCheck(outcome[i].log, "hierarchy") # {}

-----------------------------------------------------------------------------
(* C2 as stated: the log is ordered by check, and the entries of one check *)
(* by the document order of their elements.  It is stated here of the      *)
(* documents whose fonetic tiers all carry PARENT_REF, so that the entries *)
(* which break it are not the ones C4 is about.                            *)
C2_DocumentOrderWithinCheck ==
    \A i \in Files :
        (\A k \in 1..Len(argv[i].tiers) :
             TierOf(i, k).LINGUISTIC_TYPE_REF = Some(fonetic)
               => TierOf(i, k).PARENT_REF # None)
          => \A a, b \in 1..Len(outcome[i].log) :
                 a < b =>
                     /\ CheckIndex(outcome[i].log[a].check)
                          <= CheckIndex(outcome[i].log[b].check)
                     /\ outcome[i].log[a].check = outcome[i].log[b].check
                          => ~DocBefore(outcome[i].log[b].pos,
                                        outcome[i].log[a].pos)

(* C2 amended: the log is ordered by check; the entries of tier_attribs by *)
(* sub-rule (parent-required, prefix-agreement, combination); and the      *)
(* entries of one check and one sub-rule by the document order of their    *)
(* elements.                                                               *)
C2_OrderByCheckRuleDocument ==
    \A i \in Files :
        \A a, b \in 1..Len(outcome[i].log) :
            a < b =>
                /\ CheckIndex(outcome[i].log[a].check)
                     <= CheckIndex(outcome[i].log[b].check)
                /\ outcome[i].log[a].check = outcome[i].log[b].check
                     => RuleIndex(outcome[i].log[a].rule)
                          <= RuleIndex(outcome[i].log[b].rule)
                /\ (/\ outcome[i].log[a].check = outcome[i].log[b].check
                    /\ outcome[i].log[a].rule = outcome[i].log[b].rule)
                     => DocBefore(outcome[i].log[a].pos, outcome[i].log[b].pos)

(* A log with entries of two checks, and with two entries of tier_attribs  *)
(* of which the first is about the later tier.                             *)
C2_Witness ==
    \E i \in Files :
        /\ OfCheck(outcome[i].log, "vocab_meta") # {}
        /\ \E a, b \in OfCheck(outcome[i].log, "tier_attribs") :
               /\ a < b
               /\ DocBefore(outcome[i].log[b].pos, outcome[i].log[a].pos)

-----------------------------------------------------------------------------
(* C3: each vocabulary check reports an ANNOTATION_VALUE once, naming its  *)
(* text, when it lies under a tier of the check's category and its text is *)
(* missing or not in the check's vocabulary, and not at all otherwise.     *)
VocabularyRule(i, check, category, vocab) ==
    /\ \A n \in OfCheck(outcome[i].log, check) :
           /\ outcome[i].log[n].pos[1] \in 1..Len(argv[i].tiers)
           /\ outcome[i].log[n].pos[2]
                \in 1..Len(TierOf(i, outcome[i].log[n].pos[1]).annots)
    /\ \A k \in 1..Len(argv[i].tiers) :
           \A j \in 1..Len(TierOf(i, k).annots) :
               IF /\ TierOf(i, k).LINGUISTIC_TYPE_REF = Some(category)
                  /\ \A label \in vocab : TierOf(i, k).annots[j].text # Some(label)
               THEN /\ Occurrences(outcome[i].log, check, "vocab", <<k, j>>) = 1
                    /\ \A n \in OfCheck(outcome[i].log, check) :
                           outcome[i].log[n].pos = <<k, j>> =>
                               outcome[i].log[n].str[9] =
                                   (IF TierOf(i, k).annots[j].text = None
                                    THEN "None"
                                    ELSE TierOf(i, k).annots[j].text[1])
               ELSE Occurrences(outcome[i].log, check, "vocab", <<k, j>>) = 0

C3_VocabularyChecks ==
    \A i \in Files :
        Verified(i) =>
            /\ VocabularyRule(i, "vocab_meta", "meta", meta_vocab)
            /\ VocabularyRule(i, "vocab_META", "META", META_vocab)

(* A verified META tier with one value in the vocabulary, not reported,    *)
(* and one value without text, reported.                                   *)
C3_Witness ==
    \E i \in Files :
        /\ Verified(i)
        /\ Len(argv[i].tiers) = 1
        /\ TierOf(i, 1).LINGUISTIC_TYPE_REF = Some("META")
        /\ Len(TierOf(i, 1).annots) = 2
        /\ TierOf(i, 1).annots[1].text = Some("kroky")
        /\ TierOf(i, 1).annots[2].text = None
        /\ Cardinality(OfCheck(outcome[i].log, "vocab_META")) = 1

-----------------------------------------------------------------------------
(* C4 as stated: a fonetic tier without PARENT_REF gets one                *)
(* missing-PARENT_REF entry and no prefix-mismatch entry; one with         *)
(* PARENT_REF gets one prefix-mismatch entry when the prefixes differ and  *)
(* none when they agree, and no missing-PARENT_REF entry.                  *)
C4_ParentAndPrefixRules ==
    \A i \in Files :
        Verified(i) =>
            \A k \in 1..Len(argv[i].tiers) :
                TierOf(i, k).LINGUISTIC_TYPE_REF = Some(fonetic) =>
                    /\ Occurrences(outcome[i].log, "tier_attribs",
                                   "parent_required", <<k, 0>>)
                         = (IF TierOf(i, k).PARENT_REF = None THEN 1 ELSE 0)
                    /\ Occurrences(outcome[i].log, "tier_attribs",
                                   "prefix_agreement", <<k, 0>>)
                         = (IF /\ TierOf(i, k).PARENT_REF # None
                               /\ split_first(get(TierOf(i, k).TIER_ID, <<>>))
                                    # split_first(TierOf(i, k).PARENT_REF[1])
                            THEN 1 ELSE 0)

-----------------------------------------------------------------------------
(* C5: tier_attribs reports a tier once, naming its LINGUISTIC_TYPE_REF    *)
(* and TIER_ID, when the pair of the two (a missing one read as "", one    *)
(* leading digit-and-space taken off the TIER_ID) is not in the            *)
(* allow-list, and not at all when it is.                                  *)
Normalized(tid) ==
    IF \E d \in Digits : Len(tid) > 1 /\ tid[1] = d /\ tid[2] = " "
    THEN [n \in 1..(Len(tid) - 2) |-> tid[n + 2]]
    ELSE tid

Allowed(ltref, tid) ==
    \/ ltref = ortografic /\ Str(Normalized(tid)) \in {"ort", "JO"}
    \/ ltref = fonetic /\ Str(Normalized(tid)) = "fon"
    \/ ltref \in {"meta", "anom", "META"} /\ Str(Normalized(tid)) = ltref

C5_CombinationRule ==
    \A i \in Files :
        Verified(i) =>
            \A k \in 1..Len(argv[i].tiers) :
                IF Allowed(get(TierOf(i, k).LINGUISTIC_TYPE_REF, ""),
                           get(TierOf(i, k).TIER_ID, <<>>))
                THEN Occurrences(outcome[i].log, "tier_attribs",
                                 "combination", <<k, 0>>) = 0
                ELSE /\ Occurrences(outcome[i].log, "tier_attribs",
                                    "combination", <<k, 0>>) = 1
                     /\ \A n \in OfRule(outcome[i].log, "combination") :
                            outcome[i].log[n].pos = <<k, 0>> =>
                                /\ outcome[i].log[n].str[9]
                                     = get(TierOf(i, k).LINGUISTIC_TYPE_REF, "")
                                /\ outcome[i].log[n].str[11]
                                     = Str(get(TierOf(i, k).TIER_ID, <<>>))

(* A verified fonetic tier "1 1 fon" (one prefix taken off leaves "1 fon", *)
(* not allowed) has been reported.                                         *)
C5_Witness ==
    \E i \in Files :
        /\ Verified(i)
        /\ Len(argv[i].tiers) = 1
        /\ TierOf(i, 1).LINGUISTIC_TYPE_REF = Some(fonetic)
        /\ TierOf(i, 1).TIER_ID = Some(<<"1", " ", "1", " ", "f", "o", "n">>)
        /\ OfRule(outcome[i].log, "combination") # {}

-----------------------------------------------------------------------------
(* C6: hierarchy reports a document once when some ALIGNABLE_ANNOTATION    *)
(* lies under a tier with PARENT_REF, however many do, and not otherwise.  *)
C6_HierarchyOnce ==
    \A i \in Files :
        Verified(i) =>
            Cardinality(OfCheck(outcome[i].log, "hierarchy"))
              = (IF \E k \in 1..Len(argv[i].tiers) :
                       /\ TierOf(i, k).PARENT_REF # None
                       /\ \E j \in 1..Len(TierOf(i, k).annots) :
                              TierOf(i, k).annots[j].tag = "ALIGNABLE_ANNOTATION"
                 THEN 1 ELSE 0)

(* A verified document with such annotations under two tiers. *)
C6_Witness ==
    \E i \in Files :
        /\ Verified(i)
        /\ Len(argv[i].tiers) > 1
        /\ \A k \in 1..2 :
               /\ TierOf(i, k).PARENT_REF # None
               /\ Len(TierOf(i, k).annots) > 0
               /\ TierOf(i, k).annots[1].tag = "ALIGNABLE_ANNOTATION"
        /\ Cardinality(OfCheck(outcome[i].log, "hierarchy")) = 1

-----------------------------------------------------------------------------
(* C7 as stated: every entry of the log verify raises has the form         *)
(* <url>:<line>:0:VerificationError: <message>, with the URL of the        *)
(* document and the source line of the element.                            *)
C7_EveryViolationLocated ==
    \A i \in Files :
        \A n \in 1..Len(outcome[i].log) :
            IsLocated(outcome[i].log[n].str, FileName(i),
                      IF outcome[i].log[n].pos[1] = 0
                      THEN 0
                      ELSE LineOf(i, outcome[i].log[n].pos))

-----------------------------------------------------------------------------
(* C8 as stated: no label is in both vocabularies, so that no text of a    *)
(* document is a label of both.                                            *)
C8_VocabulariesDisjoint ==
    \A i \in Files :
        \A k \in 1..Len(argv[i].tiers) :
            \A j \in 1..Len(TierOf(i, k).annots) :
                \A label \in meta_vocab \cap META_vocab :
                    TierOf(i, k).annots[j].text # Some(label)

(* C8 amended: the two vocabularies share the labels "dlouh&#225; pauza"   *)
(* and "klep&#225;n&#237;" and no other; a value with one of them is       *)
(* reported neither in a meta tier nor in a META tier.                     *)
Shared == {"dlouh&#225; pauza", "klep&#225;n&#237;"}

C8_VocabulariesShareTwo ==
    /\ \A label \in meta_vocab \cup META_vocab :
           (label \in meta_vocab /\ label \in META_vocab) <=> label \in Shared
    /\ \A i \in Files :
           Verified(i) =>
               \A k \in 1..Len(argv[i].tiers) :
                   \A j \in 1..Len(TierOf(i, k).annots) :
                       (\E label \in Shared :
                            TierOf(i, k).annots[j].text = Some(label))
                         => /\ Occurrences(outcome[i].log, "vocab_meta",
                                           "vocab", <<k, j>>) = 0
                            /\ Occurrences(outcome[i].log, "vocab_META",
                                           "vocab", <<k, j>>) = 0

(* A shared label has been verified in a meta tier. *)
C8_Witness ==
    \E i \in Files :
        /\ Verified(i)
        /\ Len(argv[i].tiers) = 1
        /\ TierOf(i, 1).LINGUISTIC_TYPE_REF = Some("meta")
        /\ Len(TierOf(i, 1).annots) = 1
        /\ TierOf(i, 1).annots[1].text = Some("klep&#225;n&#237;")
        /\ OfCheck(outcome[i].log, "vocab_meta") = {}

-----------------------------------------------------------------------------
(* C9 as stated: the checks of verify run on a document only if it parsed  *)
(* and passed the schema.                                                  *)
C9_VerifyOnlyIfSchemaValid ==
    \A i \in Files : ran[i] # <<>> => argv[i].status = "valid"

(* C9 amended: verify runs on a document exactly when it parsed, whether   *)
(* or not it passed the schema: no check runs on a malformed document, all *)
(* four run on every other one, and in each case the loop goes on to the   *)
(* next document.                                                          *)
C9_VerifyIffParsed ==
    \A i \in Files :
        /\ argv[i].status = "malformed" => ran[i] = <<>> /\ ~Verified(i)
        /\ i < idx =>
              (argv[i].status # "malformed" => ran[i] = checks /\ Verified(i))
        /\ pc = "done" => i < idx

(* A document that failed the schema has been verified, after a malformed  *)
(* one, and the loop is at a third.                                        *)
C9_Witness ==
    /\ Len(argv) > 2
    /\ idx = 3
    /\ argv[1].status = "malformed"
    /\ argv[2].status = "invalid"
    /\ outcome[2].verify = "raised"

-----------------------------------------------------------------------------
(* C10: every document is processed, in order, whatever happened to the    *)
(* ones before; ERRORS is true exactly when a document so far has failed;  *)
(* and the run ends with one banner, the failure banner exactly when a     *)
(* document failed.                                                        *)
Failed(i) == argv[i].status # "valid" \/ outcome[i].verify = "raised"

Banners == {n \in 1..Len(stderr) :
              stderr[n].kind \in {"banner_errors", "banner_no_errors"}}

Reports(i) == {n \in 1..Len(stderr) : stderr[n].f = FileName(i)}

C10_BatchRunsToTheEnd ==
    /\ idx \in 1..(Len(argv) + 1)
    /\ pc \in {"loop", "done"} => (ERRORS <=> \E i \in 1..(idx - 1) : Failed(i))
    /\ pc = "check" =>
          (ERRORS <=> \/ \E i \in 1..(idx - 1) : Failed(i)
                      \/ argv[idx].status # "valid")
    /\ \A i \in Files :
           /\ i < idx => (Reports(i) # {} <=> Failed(i))
           /\ i > idx => Reports(i) = {} /\ ran[i] = <<>>
           /\ \A m \in Files : \A a \in Reports(i), b \in Reports(m) :
                  i < m => a < b
    /\ pc # "done" => Banners = {}
    /\ pc = "done" =>
          /\ idx = Len(argv) + 1
          /\ \A i \in Files :
                 argv[i].status = "malformed" \/ Verified(i)
          /\ Banners = {Len(stderr)}
          /\ stderr[Len(stderr)].kind = "banner_errors"
               <=> \E i \in Files : Failed(i)

(* A run of three documents has ended with the failure banner, the first   *)
(* document malformed and the last one clean.                              *)
C10_Witness ==
    /\ pc = "done"
    /\ Len(argv) = 3
    /\ argv[1].status = "malformed"
    /\ ~Failed(3)
    /\ stderr[Len(stderr)].kind = "banner_errors"

====
